---- MODULE Spec2Model ----
(***************************************************************************)
(* mping: the monitoring engine and the interaction state machine of       *)
(* src/main.go (model.Update, model.sortHosts, pingHost, pingAllCmd).      *)
(*                                                                         *)
(* Strings are sequences of character codes, so that strings.ToLower,      *)
(* strings.TrimSpace and Go's bytewise < are computed, not assumed.        *)
(* Slices are 1-based here: Go index i is position i+1.                    *)
(* Times are whole seconds; 0 is the zero time.Time (IsZero).              *)
(***************************************************************************)
EXTENDS Integers, Sequences, FiniteSets, Bags, TLC

\* ------------------------------------------------------------------ bounds
MaxHosts == 2
MaxTime == 3
MaxChains == 3
\* chains allowed where two confirms must follow one another
MaxPrefChains == 4

\* --------------------------------------------------------------- constants
FlashSeconds == 2
DeadlineReply == 0 - 1
SortSentinel == 1000000000
DefaultIntervalMs == 5000

\* ----------------------------------------------------------------- strings
\* Character codes used below: "0".."9" = 48..57, "," = 44, "." = 46,
\* "+" = 43, "-" = 45, " " = 32, "A".."Z" = 65..90, "a".."z" = 97..122.
Range(s) == {s[i] : i \in DOMAIN s}

\* strings.ToLower on ASCII
ToLowerCh(c) == IF c >= 65 /\ c <= 90 THEN c + 32 ELSE c

ToLower(s) == [i \in DOMAIN s |-> ToLowerCh(s[i])]

\* Go's < on strings: bytewise lexicographic, a proper prefix is smaller
RECURSIVE StrLess(_, _)
StrLess(s, t) ==
    IF t = <<>> THEN FALSE
    ELSE IF s = <<>> THEN TRUE
    ELSE IF s[1] # t[1] THEN s[1] < t[1]
    ELSE StrLess(Tail(s), Tail(t))

IsSpace(c) == c \in {9, 10, 11, 12, 13, 32}

RECURSIVE TrimLeft(_)
TrimLeft(s) == IF s # <<>> /\ IsSpace(s[1]) THEN TrimLeft(Tail(s)) ELSE s

RECURSIVE TrimRight(_)
TrimRight(s) ==
    IF s # <<>> /\ IsSpace(s[Len(s)]) THEN TrimRight(SubSeq(s, 1, Len(s) - 1)) ELSE s

\* a text taken as it is
Untrimmed(s) == s

\* strings.TrimSpace
TrimSpace(s) == TrimRight(TrimLeft(s))

\* ------------------------------------------------------------------- types
\* type Host
MkHost(h, d) == [Host |-> h, Desc |-> d]

\* type pingResult; the zero value is what make([]pingResult, n) holds
MkResult(s, r, lc, fu) == [status |-> s, reply |-> r, lastChange |-> lc, flashUntil |-> fu]

ZeroResult == MkResult(FALSE, 0, 0, 0)

ZeroResults(n) == [i \in 1..n |-> ZeroResult]

sortChoices == <<"name", "ip", "status", "reply", "age">>

\* ---------------------------------------------------------------- pingHost
\* What one run of the ping utility can produce: whether the 2 s deadline
\* was exceeded, whether the output contains "ttl=", and the number parsed
\* after "time" (NoTime when there is none or strconv.ParseFloat fails).
NoTime == 0 - 2
Latencies == {12}
MkOut(d, t, v) == [deadline |-> d, ttl |-> t, time |-> v]

PingOutputs ==
    {MkOut(TRUE, FALSE, NoTime), MkOut(FALSE, FALSE, NoTime), MkOut(FALSE, TRUE, NoTime)}
        \cup {MkOut(FALSE, TRUE, v) : v \in Latencies}

\* pingHost returning the zero reply, and not -1, when the host did not answer
pingHostZeroReply(out) ==
    IF out.deadline THEN [up |-> FALSE, ms |-> 0]
    ELSE IF out.ttl
         THEN IF out.time # NoTime
              THEN [up |-> TRUE, ms |-> out.time]
              ELSE [up |-> TRUE, ms |-> DeadlineReply]
         ELSE [up |-> FALSE, ms |-> 0]

pingHost(out) ==
    IF out.deadline THEN [up |-> FALSE, ms |-> DeadlineReply]
    ELSE IF out.ttl
         THEN IF out.time # NoTime
              THEN [up |-> TRUE, ms |-> out.time]
              ELSE [up |-> TRUE, ms |-> DeadlineReply]
         ELSE [up |-> FALSE, ms |-> DeadlineReply]

\* ---------------------------------------------------------------- sorting
\* sort.SliceStable and sort.Slice are insertion sorts for slices this
\* short (at most 12 elements): for i := a+1..b-1, sift data[i] down while
\* less(j, j-1). L is the set of pairs <<x, y>> with less(x, y).
SwapAt(s, j) == [s EXCEPT ![j] = s[j - 1], ![j - 1] = s[j]]

RECURSIVE Sift(_, _, _)
Sift(s, j, L) ==
    IF j > 1 /\ <<s[j], s[j - 1]>> \in L THEN Sift(SwapAt(s, j), j - 1, L) ELSE s

RECURSIVE InsertionFrom(_, _, _)
InsertionFrom(s, i, L) ==
    IF i > Len(s) THEN s ELSE InsertionFrom(Sift(s, i, L), i + 1, L)

insertionSort(s, L) == InsertionFrom(s, 2, L)

LessName(a, b) == StrLess(ToLower(a.Host), ToLower(b.Host))

\* net.LookupIP: env.dns maps an address to the first resolved address, or
\* to <<>> when the lookup fails or returns nothing.
ResolvedKey(h, env) == IF env.dns[h.Host] # <<>> THEN env.dns[h.Host] ELSE h.Host

\* The guarded reads "if i < len(m.results)" of the comparator
StatusKey(rs, i) == IF i <= Len(rs) THEN rs[i].status ELSE FALSE

ReplyKey(rs, i) ==
    IF i <= Len(rs) /\ rs[i].status THEN rs[i].reply ELSE SortSentinel

\* time.Since(lastChange).Seconds() in thirds of a second at clock value t;
\* late is the sub-second time that has passed at this read of the clock.
\* A row never observed has age exactly 0.
AgeKey(rs, i, t, late) ==
    IF i <= Len(rs) /\ rs[i].lastChange # 0 THEN 3 * (t - rs[i].lastChange) + late ELSE 0

\* the comparator answering "less" for rows it should find equal
sortLessOrEqual(hs, rs, by, env, i, j) ==
    CASE by = "ip" -> ~StrLess(ResolvedKey(hs[j], env), ResolvedKey(hs[i], env))
      [] by = "status" ->
            IF StatusKey(rs, i) # StatusKey(rs, j)
            THEN StatusKey(rs, i) /\ ~StatusKey(rs, j)
            ELSE ~LessName(hs[j], hs[i])
      [] by = "reply" ->
            IF ReplyKey(rs, i) # ReplyKey(rs, j)
            THEN ReplyKey(rs, i) < ReplyKey(rs, j)
            ELSE ~LessName(hs[j], hs[i])
      [] by = "age" ->
            LET ageA == AgeKey(rs, i, env.now, IF env.skew THEN 1 ELSE 0)
                ageB == AgeKey(rs, j, env.now, IF env.skew THEN 2 ELSE 0)
            IN  IF ageA # ageB THEN ageA > ageB ELSE ~LessName(hs[j], hs[i])
      [] OTHER -> ~LessName(hs[j], hs[i])

\* the comparator with the "ip" key folded to lower case and ties on it
\* broken by the lower-cased host
sortLessFolded(hs, rs, by, env, i, j) ==
    CASE by = "ip" ->
            LET ipA == ToLower(ResolvedKey(hs[i], env))
                ipB == ToLower(ResolvedKey(hs[j], env))
            IN  IF ipA # ipB THEN StrLess(ipA, ipB) ELSE LessName(hs[i], hs[j])
      [] by = "status" ->
            IF StatusKey(rs, i) # StatusKey(rs, j)
            THEN StatusKey(rs, i) /\ ~StatusKey(rs, j)
            ELSE LessName(hs[i], hs[j])
      [] by = "reply" ->
            IF ReplyKey(rs, i) # ReplyKey(rs, j)
            THEN ReplyKey(rs, i) < ReplyKey(rs, j)
            ELSE LessName(hs[i], hs[j])
      [] by = "age" ->
            LET ageA == AgeKey(rs, i, env.now, IF env.skew THEN 1 ELSE 0)
                ageB == AgeKey(rs, j, env.now, IF env.skew THEN 2 ELSE 0)
            IN  IF ageA # ageB THEN ageA > ageB ELSE LessName(hs[i], hs[j])
      [] OTHER -> LessName(hs[i], hs[j])

\* The comparator of sortHosts on original indices i, j.  env.dns is the
\* resolver, env.now the clock; env.skew says the clock has sub-second
\* resolution, so that the two time.Since reads of one comparison differ
\* (ageB is read after ageA).
sortLess(hs, rs, by, env, i, j) ==
    CASE by = "ip" -> StrLess(ResolvedKey(hs[i], env), ResolvedKey(hs[j], env))
      [] by = "status" ->
            IF StatusKey(rs, i) # StatusKey(rs, j)
            THEN StatusKey(rs, i) /\ ~StatusKey(rs, j)
            ELSE LessName(hs[i], hs[j])
      [] by = "reply" ->
            IF ReplyKey(rs, i) # ReplyKey(rs, j)
            THEN ReplyKey(rs, i) < ReplyKey(rs, j)
            ELSE LessName(hs[i], hs[j])
      [] by = "age" ->
            LET ageA == AgeKey(rs, i, env.now, IF env.skew THEN 1 ELSE 0)
                ageB == AgeKey(rs, j, env.now, IF env.skew THEN 2 ELSE 0)
            IN  IF ageA # ageB THEN ageA > ageB ELSE LessName(hs[i], hs[j])
      [] OTHER -> LessName(hs[i], hs[j])

SortedIdx(hs, rs, by, env) ==
    LET n == Len(hs)
        L == {p \in (1..n) \X (1..n) : sortLess(hs, rs, by, env, p[1], p[2])}
    IN  insertionSort([i \in 1..n |-> i], L)

\* model.sortHosts: the new hosts and results, or a panic when the copy
\* loop writes newResults[k] with k outside make([]pingResult, len(results))
sortHosts(hs, rs, by, env) ==
    LET n == Len(hs)
        idx == SortedIdx(hs, rs, by, env)
    IN  [hosts |-> [k \in 1..n |-> hs[idx[k]]],
         results |-> [k \in 1..Len(rs) |->
                        IF k <= n /\ idx[k] <= Len(rs) THEN rs[idx[k]] ELSE ZeroResult],
         panic |-> \E k \in 1..n : idx[k] <= Len(rs) /\ k > Len(rs)]

\* The in-place sort.Slice of the add/edit confirm (by name only)
sortByName(hs) ==
    LET n == Len(hs)
        L == {p \in (1..n) \X (1..n) : LessName(hs[p[1]], hs[p[2]])}
        idx == insertionSort([i \in 1..n |-> i], L)
    IN  [k \in 1..n |-> hs[idx[k]]]

\* ------------------------------------------------------- interval strings
IsDigit(c) == c >= 48 /\ c <= 57

\* strings.ReplaceAll(s, ",", ".")
ReplaceComma(s) == [i \in DOMAIN s |-> IF s[i] = 44 THEN 46 ELSE s[i]]

RECURSIVE DigitCount(_)
DigitCount(s) == IF s # <<>> /\ IsDigit(s[1]) THEN 1 + DigitCount(Tail(s)) ELSE 0

RECURSIVE DigitsValue(_, _)
DigitsValue(s, acc) ==
    IF s = <<>> THEN acc ELSE DigitsValue(Tail(s), 10 * acc + (s[1] - 48))

RECURSIVE UnitLen(_)
UnitLen(s) ==
    IF s # <<>> /\ s[1] # 46 /\ ~IsDigit(s[1]) THEN 1 + UnitLen(Tail(s)) ELSE 0

Drop(s, n) == SubSeq(s, n + 1, Len(s))

\* milliseconds per unit; 0 marks an unknown unit ("ns", "us" are not in
\* the input alphabet of the model)
UnitMs(u) ==
    IF u = <<115>> THEN 1000
    ELSE IF u = <<109, 115>> THEN 1
    ELSE IF u = <<109>> THEN 60000
    ELSE IF u = <<104>> THEN 3600000
    ELSE 0

\* a fraction which is dropped
FracDropped(f) == 0

\* the fraction digits f as thousandths (digits after the third are cut)
FracMilli(f) ==
    LET g == SubSeq(f \o <<48, 48, 48>>, 1, 3) IN DigitsValue(g, 0)

\* time.ParseDuration without the sign: ([0-9]*(\.[0-9]*)?[a-z]+)+
RECURSIVE ParseTerms(_, _)
ParseTerms(s, acc) ==
    IF s = <<>> THEN [ok |-> TRUE, ms |-> acc]
    ELSE LET pl == DigitCount(s)
             afterInt == Drop(s, pl)
             hasDot == afterInt # <<>> /\ afterInt[1] = 46
             fracSrc == IF hasDot THEN Tail(afterInt) ELSE afterInt
             fl == IF hasDot THEN DigitCount(fracSrc) ELSE 0
             afterNum == Drop(fracSrc, fl)
             ul == UnitLen(afterNum)
             unit == UnitMs(SubSeq(afterNum, 1, ul))
             whole == DigitsValue(SubSeq(s, 1, pl), 0)
             frac == FracMilli(SubSeq(fracSrc, 1, fl))
         IN  IF (pl = 0 /\ fl = 0) \/ ul = 0 \/ unit = 0
             THEN [ok |-> FALSE, ms |-> 0]
             ELSE ParseTerms(Drop(afterNum, ul), acc + whole * unit + (frac * unit) \div 1000)

ParseDuration(s) ==
    LET neg == s # <<>> /\ s[1] = 45
        signed == s # <<>> /\ s[1] \in {43, 45}
        body == IF signed THEN Tail(s) ELSE s
        r == ParseTerms(body, 0)
    IN  IF body = <<>> \/ ~r.ok THEN [ok |-> FALSE, ms |-> 0]
        ELSE [ok |-> TRUE, ms |-> IF neg THEN 0 - r.ms ELSE r.ms]

\* fmt.Sprintf("%.1f", interval.Seconds()) for intervals below 10 s
FormatSeconds(ms) ==
    LET tenths == (ms + 50) \div 100
    IN  <<48 + (tenths \div 10), 46, 48 + (tenths % 10)>>

\* ------------------------------------------------------------ environment
\* Addresses and descriptions a user types or the hosts file holds.
StrA == <<97>>
StrB == <<66>>
StrX == <<120>>
Addrs == {StrA, StrB}

\* what the text input of a form can hold after a key press
HostTexts == {<<32>>, StrA, StrB}
DescTexts == {StrX}
IntervalTexts == {<<>>, <<48, 46, 53>>, <<54>>}

\* more of them: "0.4", "5.0", "2,5", "500m" and " 1"
IntervalInputs ==
    IntervalTexts
        \cup {<<48, 46, 52>>, <<53, 46, 48>>, <<50, 44, 53>>, <<53, 48, 48, 109>>, <<32, 49>>}

\* hosts.txt as loadHostsFromFile can find it (records in file order)
FileLists ==
    {<<>>, <<MkHost(StrB, <<>>)>>, <<MkHost(StrB, StrX), MkHost(StrA, <<>>)>>,
     <<MkHost(StrA, <<>>), MkHost(StrA, StrX)>>}

\* loadHostsFromFile: the records, sorted by lower-cased host
loadHostsFromFile(file) == sortByName(file)

\* the resolver answers one sortHosts call can see: no name resolves, only
\* "a" resolves, or both names resolve to one address
Resolvers ==
    {[a \in Addrs |-> <<>>], [a \in Addrs |-> IF a = StrA THEN <<50>> ELSE <<>>],
     [a \in Addrs |-> <<50>>]}

\* what one sortHosts call finds around it when the last clock reading
\* was t: the resolver, the clock, and whether two successive clock reads
\* differ
Envs(t) == [dns : Resolvers, skew : BOOLEAN, now : {t, t + 1}]

\* ------------------------------------------------------------------ state
VARIABLES
    hosts, results, cursor, width, height, mode,
    inputHost, inputDesc, hostFocused, editIndex, confirmIndex,
    message, interval, quitting, sortBy,
    optInterval, optSortIndex, optFocus,
    hostsCap,       \* cap(m.hosts), the length of its backing array
    now,            \* the last reading of the wall clock, in seconds
    ticks,          \* tea.Tick timers armed and not yet fired
    rounds,         \* bag of pingAllCmd rounds armed and not yet delivered
    panicked        \* an index out of range ended the program

formVars == <<inputHost, inputDesc, hostFocused, editIndex>>
optVars == <<optInterval, optSortIndex, optFocus>>
prefVars == <<interval, sortBy>>
sizeVars == <<width, height>>
tableVars == <<hosts, hostsCap, results, cursor>>
cmdVars == <<ticks, rounds>>
vars == <<hosts, results, cursor, width, height, mode, inputHost, inputDesc,
          hostFocused, editIndex, confirmIndex, message, interval, quitting,
          sortBy, optInterval, optSortIndex, optFocus, hostsCap, now, ticks,
          rounds, panicked>>

Running == ~quitting /\ ~panicked

Chains == ticks + BagCardinality(rounds)

\* A round of pingAllCmd(hosts).  While live, its closure holds the slice
\* (backing array of m.hosts, length Len(addrs)) and has not yet read the
\* elements: addrs is what the array holds now.  Once the loop
\* "for i, h := range hosts" has run, addrs are the addresses probed.
Round(lv, as) == [live |-> lv, addrs |-> as]

AddrsOf(hs) == [i \in DOMAIN hs |-> hs[i].Host]

\* m.hosts gets a new backing array: a live round keeps the old array,
\* which nothing writes any more.
Detach(r) == Round(FALSE, r.addrs)

DetachAll(rs) == BagOfAll(Detach, rs)

\* the backing array is written in place and now starts with hs
Overwritten(r, hs) ==
    IF r.live
    THEN Round(TRUE, [i \in DOMAIN r.addrs |->
                        IF i <= Len(hs) THEN hs[i].Host ELSE r.addrs[i]])
    ELSE r

OverwriteAll(rs, hs) == BagOfAll(LAMBDA r : Overwritten(r, hs), rs)

\* two commands returned where the code returns one
ArmTwice(rs, hs) == rs (+) SetToBag({Round(TRUE, AddrsOf(hs))}) (+) SetToBag({Round(TRUE, AddrsOf(hs))})

\* return m, pingAllCmd(m.hosts): one more round, not yet started
Arm(rs, hs) == rs (+) SetToBag({Round(TRUE, AddrsOf(hs))})

\* append growth of a full slice of small elements: 0 -> 1, c -> 2c
GrowCap(c) == IF c = 0 THEN 1 ELSE 2 * c

\* ------------------------------------------------------------------- Init
\* main: load, zero results, sortHosts by name, then model.Init arms one
\* tick and one round.  A missing hosts.txt gives the empty list.
Init ==
    \E file \in FileLists, env \in Envs(1) :
        LET loaded == loadHostsFromFile(file)
            s == sortHosts(loaded, ZeroResults(Len(loaded)), "name", env)
        IN  /\ hosts = s.hosts
            /\ hostsCap = Len(s.hosts)
            /\ results = s.results
            /\ cursor = 0
            /\ width = 0
            /\ height = 0
            /\ mode = "list"
            /\ inputHost = <<>>
            /\ inputDesc = <<>>
            /\ hostFocused = FALSE
            /\ editIndex = 0
            /\ confirmIndex = 0
            /\ message = ""
            /\ interval = DefaultIntervalMs
            /\ quitting = FALSE
            /\ sortBy = "name"
            /\ optInterval = <<>>
            /\ optSortIndex = 0
            /\ optFocus = 0
            /\ now = 1
            /\ ticks = 1
            /\ rounds = Arm(EmptyBag, s.hosts)
            /\ panicked = FALSE

\* main with the outcome of loadHostsFromFile in view.  load.err is "none"
\* (load.hosts is the list read), "notexist" (os.IsNotExist holds of the
\* error) or "other" (any other error of os.Open or of the scanner); with
\* an error the list is nil.
LoadOutcomes ==
    {[err |-> "none", hosts |-> loadHostsFromFile(file)] : file \in FileLists}
        \cup {[err |-> e, hosts |-> <<>>] : e \in {"notexist", "other"}}

\* a main which starts whatever the error
mainForgiving(load, env) ==
    LET s == sortHosts(load.hosts, ZeroResults(Len(load.hosts)), "name", env)
    IN  [exit |-> FALSE, hosts |-> s.hosts, results |-> s.results, mode |-> "list"]

\* main up to tea.NewProgram: exit is os.Exit(1)
main(load, env) ==
    IF load.err # "none" /\ load.err # "notexist"
    THEN [exit |-> TRUE, hosts |-> <<>>, results |-> <<>>, mode |-> "list"]
    ELSE LET s == sortHosts(load.hosts, ZeroResults(Len(load.hosts)), "name", env)
         IN  [exit |-> FALSE, hosts |-> s.hosts, results |-> s.results, mode |-> "list"]

\* Init with the runs in which main exits before the program starts: no
\* tick and no round is armed in them
InitStartup ==
    \E load \in LoadOutcomes, env \in Envs(1) :
        LET m == main(load, env)
        IN  /\ hosts = m.hosts
            /\ hostsCap = Len(m.hosts)
            /\ results = m.results
            /\ cursor = 0
            /\ width = 0
            /\ height = 0
            /\ mode = m.mode
            /\ inputHost = <<>>
            /\ inputDesc = <<>>
            /\ hostFocused = FALSE
            /\ editIndex = 0
            /\ confirmIndex = 0
            /\ message = ""
            /\ interval = DefaultIntervalMs
            /\ quitting = m.exit
            /\ sortBy = "name"
            /\ optInterval = <<>>
            /\ optSortIndex = 0
            /\ optFocus = 0
            /\ now = 1
            /\ ticks = IF m.exit THEN 0 ELSE 1
            /\ rounds = IF m.exit THEN EmptyBag ELSE Arm(EmptyBag, m.hosts)
            /\ panicked = FALSE

\* ----------------------------------------------------------- probe rounds
\* pingAllCmd's closure runs: "for i, h := range hosts" reads the addresses
\* out of the backing array as it is now and starts one task per host.
StartRound ==
    /\ Running
    /\ \E r \in BagToSet(rounds) :
        /\ r.live
        /\ rounds' = (rounds (-) SetToBag({r})) (+) SetToBag({Detach(r)})
    /\ UNCHANGED <<tableVars, sizeVars, mode, formVars, confirmIndex, message,
                   prefVars, quitting, optVars, ticks, now, panicked>>

\* a tick which returns tea.Batch(m.tickCmd(), pingAllCmd(m.hosts))
TickKeepsTimer ==
    /\ Running
    /\ ticks > 0
    /\ rounds' = Arm(rounds, hosts)
    /\ UNCHANGED <<tableVars, sizeVars, mode, formVars, confirmIndex, message,
                   prefVars, quitting, optVars, ticks, now, panicked>>

\* case tickMsg
Tick ==
    /\ Running
    /\ ticks > 0
    /\ ticks' = ticks - 1
    /\ rounds' = Arm(rounds, hosts)
    /\ UNCHANGED <<tableVars, sizeVars, mode, formVars, confirmIndex, message,
                   prefVars, quitting, optVars, now, panicked>>

\* the batch a round returns: results[i] = pingResult{status: up, reply: ms}
Batch(outs) ==
    [i \in DOMAIN outs |->
        MkResult(pingHost(outs[i]).up, pingHost(outs[i]).ms, 0, 0)]

\* the slice the loop of case pingResultsMsg writes into
Resized(rs, msg) == IF Len(rs) # Len(msg) THEN ZeroResults(Len(msg)) ELSE rs

\* the loop iteration restarting a running flash on every batch
ReconcileRestartsFlash(prev, res, t) ==
    LET lc0 == IF prev.lastChange = 0 THEN t ELSE prev.lastChange
    IN  IF prev.status # res.status
        THEN MkResult(res.status, res.reply, t, t + FlashSeconds)
        ELSE MkResult(res.status, res.reply, lc0,
                      IF prev.flashUntil > t THEN t + FlashSeconds ELSE 0)

\* one iteration of the loop of case pingResultsMsg
Reconcile(prev, res, t) ==
    LET lc0 == IF prev.lastChange = 0 THEN t ELSE prev.lastChange
    IN  IF prev.status # res.status
        THEN MkResult(res.status, res.reply, t, t + FlashSeconds)
        ELSE MkResult(res.status, res.reply, lc0,
                      IF prev.flashUntil > t THEN prev.flashUntil ELSE 0)

Reconciled(rs, msg, t) ==
    [i \in 1..Len(msg) |-> Reconcile(Resized(rs, msg)[i], msg[i], t)]

\* the rows for which the loop prints "\a"
Alerts(rs, msg) == {i \in 1..Len(msg) : Resized(rs, msg)[i].status # msg[i].status}

\* a delivery which returns m, nil: no timer is armed
DeliverMsgNoTick(r, msg, t) ==
    /\ Running
    /\ r \in BagToSet(rounds)
    /\ ~r.live
    /\ Len(msg) = Len(r.addrs)
    /\ t >= now
    /\ now' = t
    /\ results' = Reconciled(results, msg, t)
    /\ rounds' = rounds (-) SetToBag({r})
    /\ UNCHANGED <<hosts, hostsCap, cursor, sizeVars, mode, formVars, confirmIndex,
                   message, prefVars, quitting, optVars, panicked, ticks>>

\* case pingResultsMsg, for the batch msg of round r, when time.Now() is t
DeliverMsg(r, msg, t) ==
    /\ Running
    /\ r \in BagToSet(rounds)
    /\ ~r.live
    /\ Len(msg) = Len(r.addrs)
    /\ t >= now
    /\ now' = t
    /\ results' = Reconciled(results, msg, t)
    /\ rounds' = rounds (-) SetToBag({r})
    /\ ticks' = ticks + 1
    /\ UNCHANGED <<hosts, hostsCap, cursor, sizeVars, mode, formVars, confirmIndex,
                   message, prefVars, quitting, optVars, panicked>>

\* the batches a round over n addresses can return
Batches(n) == {Batch(outs) : outs \in [1..n -> PingOutputs]}

\* the readings time.Now() can give after the reading now: any second up to
\* one flash period later
Instants == {t \in now..(now + FlashSeconds) : t <= MaxTime}

Deliver ==
    \E r \in BagToSet(rounds), t \in Instants :
        \E msg \in Batches(Len(r.addrs)) : DeliverMsg(r, msg, t)

\* ------------------------------------------ the goroutines of one round
\* Deliver takes the closure of pingAllCmd as one step.  The actions below
\* take it apart: the loop that makes results and starts one goroutine per
\* host, each goroutine's write of its slot, its deferred wg.Done, and the
\* return after wg.Wait.  A round whose loop has run carries
\*   slots   - results, made of zero values
\*   pc      - where each goroutine is: "run", "wrote" (slot written, Done
\*             not yet called), "done"
\* and, to tell what happened to it,
\*   probed  - the host each goroutine gave to pingHost (<<>>: none yet)
\*   writers - for each slot, the goroutines that wrote it, in order.
Launched(r) == "pc" \in DOMAIN r

Goroutines(as) ==
    [live |-> FALSE, addrs |-> as,
     slots |-> ZeroResults(Len(as)),
     pc |-> [i \in DOMAIN as |-> "run"],
     probed |-> [i \in DOMAIN as |-> <<>>],
     writers |-> [i \in DOMAIN as |-> <<>>]]

\* results := make(...); for i, h := range hosts { wg.Add(1); go ... }
Launch ==
    /\ Running
    /\ \E r \in BagToSet(rounds) :
        /\ ~r.live
        /\ ~Launched(r)
        /\ rounds' = (rounds (-) SetToBag({r})) (+) SetToBag({Goroutines(r.addrs)})
    /\ UNCHANGED <<tableVars, sizeVars, mode, formVars, confirmIndex, message,
                   prefVars, quitting, optVars, ticks, now, panicked>>

\* goroutine i after its write: up, ms := pingHost(host);
\* results[i] = pingResult{status: up, reply: ms}
Written(r, i, out) ==
    [r EXCEPT !.slots[i] = MkResult(pingHost(out).up, pingHost(out).ms, 0, 0),
              !.pc[i] = "wrote",
              !.probed[i] = r.addrs[i],
              !.writers[i] = Append(r.writers[i], i)]

TaskWrites ==
    /\ Running
    /\ \E r \in BagToSet(rounds) :
        /\ Launched(r)
        /\ \E i \in DOMAIN r.pc, out \in PingOutputs :
            /\ r.pc[i] = "run"
            /\ rounds' = (rounds (-) SetToBag({r})) (+) SetToBag({Written(r, i, out)})
    /\ UNCHANGED <<tableVars, sizeVars, mode, formVars, confirmIndex, message,
                   prefVars, quitting, optVars, ticks, now, panicked>>

\* defer wg.Done()
TaskDone ==
    /\ Running
    /\ \E r \in BagToSet(rounds) :
        /\ Launched(r)
        /\ \E i \in DOMAIN r.pc :
            /\ r.pc[i] = "wrote"
            /\ rounds' = (rounds (-) SetToBag({r}))
                            (+) SetToBag({[r EXCEPT !.pc[i] = "done"]})
    /\ UNCHANGED <<tableVars, sizeVars, mode, formVars, confirmIndex, message,
                   prefVars, quitting, optVars, ticks, now, panicked>>

\* a wait which returns at once
JoinedAtOnce(r) == TRUE

\* wg.Wait() returns: every goroutine has called Done
Joined(r) == \A i \in DOMAIN r.pc : r.pc[i] = "done"

\* return pingResultsMsg(results), and case pingResultsMsg for it
Join ==
    \E r \in BagToSet(rounds), t \in Instants :
        /\ Launched(r)
        /\ Joined(r)
        /\ DeliverMsg(r, r.slots, t)

\* case tea.WindowSizeMsg
Sizes == {<<80, 24>>}

\* a resize which also sends the cursor back to the first row
ResizeResetsCursor ==
    /\ Running
    /\ \E sz \in Sizes : width' = sz[1] /\ height' = sz[2]
    /\ cursor' = 0
    /\ UNCHANGED <<hosts, hostsCap, results, mode, formVars, confirmIndex, message,
                   prefVars, quitting, optVars, cmdVars, now, panicked>>

Resize ==
    /\ Running
    /\ \E sz \in Sizes : width' = sz[1] /\ height' = sz[2]
    /\ UNCHANGED <<tableVars, mode, formVars, confirmIndex, message, prefVars,
                   quitting, optVars, cmdVars, now, panicked>>

\* ------------------------------------------------------ keys in List mode
ListKey == Running /\ mode = "list"

\* "ctrl+c", "q", "Q"
Quit ==
    /\ ListKey
    /\ quitting' = TRUE
    /\ UNCHANGED <<tableVars, sizeVars, mode, formVars, confirmIndex, message,
                   prefVars, optVars, cmdVars, now, panicked>>

\* "up", "k", "K"
CursorUp ==
    /\ ListKey
    /\ cursor' = IF cursor > 0 THEN cursor - 1 ELSE cursor
    /\ UNCHANGED <<hosts, hostsCap, results, sizeVars, mode, formVars, confirmIndex,
                   message, prefVars, quitting, optVars, cmdVars, now, panicked>>

\* a "down" which does not stop at the last row
CursorDownUnchecked ==
    /\ ListKey
    /\ cursor' = cursor + 1
    /\ UNCHANGED <<hosts, hostsCap, results, sizeVars, mode, formVars, confirmIndex,
                   message, prefVars, quitting, optVars, cmdVars, now, panicked>>

\* "down", "j", "J"
CursorDown ==
    /\ ListKey
    /\ cursor' = IF cursor < Len(hosts) - 1 THEN cursor + 1 ELSE cursor
    /\ UNCHANGED <<hosts, hostsCap, results, sizeVars, mode, formVars, confirmIndex,
                   message, prefVars, quitting, optVars, cmdVars, now, panicked>>

\* "a", "A"
OpenAdd ==
    /\ ListKey
    /\ mode' = "add"
    /\ inputHost' = <<>>
    /\ inputDesc' = <<>>
    /\ hostFocused' = TRUE
    /\ UNCHANGED <<tableVars, sizeVars, editIndex, confirmIndex, message, prefVars,
                   quitting, optVars, cmdVars, now, panicked>>

\* "e", "E"
OpenEdit ==
    /\ ListKey
    /\ IF Len(hosts) = 0
       THEN UNCHANGED <<mode, formVars, panicked>>
       ELSE IF cursor + 1 \notin DOMAIN hosts
       THEN panicked' = TRUE /\ UNCHANGED <<mode, formVars>>
       ELSE /\ mode' = "edit"
            /\ editIndex' = cursor
            /\ inputHost' = hosts[cursor + 1].Host
            /\ inputDesc' = hosts[cursor + 1].Desc
            /\ hostFocused' = TRUE
            /\ UNCHANGED panicked
    /\ UNCHANGED <<tableVars, sizeVars, confirmIndex, message, prefVars,
                   quitting, optVars, cmdVars, now>>

\* "d", "D"
OpenDelete ==
    /\ ListKey
    /\ IF Len(hosts) = 0
       THEN UNCHANGED <<mode, confirmIndex>>
       ELSE mode' = "confirmDelete" /\ confirmIndex' = cursor
    /\ UNCHANGED <<tableVars, sizeVars, formVars, message, prefVars,
                   quitting, optVars, cmdVars, now, panicked>>

\* "s", "S": saveHostsToFile succeeds or fails
Save ==
    /\ ListKey
    /\ \E ok \in BOOLEAN : message' = IF ok THEN "Hosts saved" ELSE "Failed to save"
    /\ UNCHANGED <<tableVars, sizeVars, mode, formVars, confirmIndex, prefVars,
                   quitting, optVars, cmdVars, now, panicked>>

\* "r", "R" when loadHostsFromFile returns a list
Reload ==
    /\ ListKey
    /\ Chains < MaxChains
    /\ \E file \in FileLists, env \in Envs(now) :
        LET h == loadHostsFromFile(file)
            s == sortHosts(h, ZeroResults(Len(h)), sortBy, env)
        IN  /\ Len(h) <= MaxHosts
            /\ IF s.panic
               THEN panicked' = TRUE /\ UNCHANGED <<tableVars, message, cmdVars>>
               ELSE /\ hosts' = s.hosts
                    /\ hostsCap' = Len(s.hosts)
                    /\ results' = s.results
                    /\ cursor' = 0
                    /\ message' = "Hosts reloaded"
                    /\ rounds' = Arm(DetachAll(rounds), s.hosts)
                    /\ UNCHANGED <<ticks, panicked>>
    /\ UNCHANGED <<sizeVars, mode, formVars, confirmIndex, prefVars, quitting,
                   optVars, now>>

\* "r", "R" when loadHostsFromFile returns an error
ReloadFails ==
    /\ ListKey
    /\ UNCHANGED vars

\* the index of m.sortBy in sortChoices, 0 when it is not there
SortIndexOf(by) ==
    IF \E i \in DOMAIN sortChoices : sortChoices[i] = by
    THEN (CHOOSE i \in DOMAIN sortChoices :
            sortChoices[i] = by /\ \A j \in 1..(i - 1) : sortChoices[j] # by) - 1
    ELSE 0

\* "o", "O"
OpenOptions ==
    /\ ListKey
    /\ mode' = "options"
    /\ optInterval' = FormatSeconds(interval)
    /\ optSortIndex' = SortIndexOf(sortBy)
    /\ optFocus' = 0
    /\ UNCHANGED <<tableVars, sizeVars, formVars, confirmIndex, message, prefVars,
                   quitting, cmdVars, now, panicked>>

\* ------------------------------------------------- keys in Add/Edit mode
FormKey == Running /\ mode \in {"add", "edit"}

\* "tab" in either field, and "enter" in the host field: the focus moves
FormFocus ==
    /\ FormKey
    /\ \E key \in {"tab", "enter"} :
        /\ key = "enter" => hostFocused
        /\ hostFocused' = ~hostFocused
    /\ UNCHANGED <<tableVars, sizeVars, mode, inputHost, inputDesc, editIndex,
                   confirmIndex, message, prefVars, quitting, optVars, cmdVars, now,
                   panicked>>

\* "esc" in either field
FormCancel ==
    /\ FormKey
    /\ mode' = "list"
    /\ UNCHANGED <<tableVars, sizeVars, formVars, confirmIndex, message, prefVars,
                   quitting, optVars, cmdVars, now, panicked>>

\* any other key goes to the focused text input, which then holds v
FormType ==
    /\ FormKey
    /\ IF hostFocused
       THEN (\E v \in HostTexts : inputHost' = v) /\ UNCHANGED inputDesc
       ELSE (\E v \in DescTexts : inputDesc' = v) /\ UNCHANGED inputHost
    /\ UNCHANGED <<tableVars, sizeVars, mode, hostFocused, editIndex, confirmIndex,
                   message, prefVars, quitting, optVars, cmdVars, now, panicked>>

\* "for i, h := range m.hosts { if h.Host == hostVal ... }", 0 when not found
CursorOf(hs, hostVal) ==
    IF \E i \in DOMAIN hs : hs[i].Host = hostVal
    THEN (CHOOSE i \in DOMAIN hs :
            hs[i].Host = hostVal /\ \A j \in 1..(i - 1) : hs[j].Host # hostVal) - 1
    ELSE 0

\* m.hosts after the append or the in-place overwrite, before the sort
Entered(hs, md, ei, h) ==
    IF md = "add" THEN Append(hs, h)
    ELSE IF ei + 1 \in DOMAIN hs THEN [hs EXCEPT ![ei + 1] = h]
    ELSE hs

\* "enter" in the description field, with at most cap command chains
FormConfirmWithin(cap) ==
    /\ FormKey
    /\ ~hostFocused
    /\ LET hostVal == TrimSpace(inputHost)
           descVal == TrimSpace(inputDesc)
           sorted == sortByName(Entered(hosts, mode, editIndex, MkHost(hostVal, descVal)))
           grows == mode = "add" /\ hostsCap = Len(hosts)
           held == IF grows THEN DetachAll(rounds) ELSE OverwriteAll(rounds, sorted)
       IN  IF hostVal = <<>>
           THEN /\ message' = "Host cannot be empty"
                /\ UNCHANGED <<tableVars, mode, cmdVars>>
           ELSE /\ mode = "add" => Len(hosts) < MaxHosts
                /\ Chains < cap
                /\ hosts' = sorted
                /\ hostsCap' = IF grows THEN GrowCap(hostsCap) ELSE hostsCap
                /\ results' = ZeroResults(Len(sorted))
                /\ cursor' = CursorOf(sorted, hostVal)
                /\ mode' = "list"
                /\ rounds' = Arm(held, sorted)
                /\ UNCHANGED <<ticks, message>>
    /\ UNCHANGED <<sizeVars, formVars, confirmIndex, prefVars, quitting, optVars, now,
                   panicked>>

FormConfirm == FormConfirmWithin(MaxChains)

\* ------------------------------------------- keys in ConfirmDelete mode
\* a removal which always drops the last element
RemoveLast(s, i) == SubSeq(s, 1, Len(s) - 1)

\* append(s[:i], s[i+1:]...)
RemoveAt(s, i) == SubSeq(s, 1, i - 1) \o SubSeq(s, i + 1, Len(s))

\* a cursor which no delete moves
CursorKept(c, n) == c

\* "Adjust cursor if necessary": c is the cursor, n the number of hosts left
CursorAfterDelete(c, n) == IF c >= n /\ c > 0 THEN c - 1 ELSE c

\* "y", "Y"
DeleteYes ==
    /\ Running
    /\ mode = "confirmDelete"
    /\ LET at == confirmIndex + 1
           hs == RemoveAt(hosts, at)
       IN  IF at \in DOMAIN hosts
           THEN /\ hosts' = hs
                /\ results' = IF at \in DOMAIN results THEN RemoveAt(results, at) ELSE results
                /\ cursor' = CursorAfterDelete(cursor, Len(hs))
                /\ message' = "Host deleted"
                /\ rounds' = OverwriteAll(rounds, hs)
           ELSE UNCHANGED <<hosts, results, cursor, message, rounds>>
    /\ mode' = "list"
    /\ UNCHANGED <<hostsCap, sizeVars, formVars, confirmIndex, prefVars, quitting,
                   optVars, ticks, now, panicked>>

\* "n", "N", "esc"
DeleteNo ==
    /\ Running
    /\ mode = "confirmDelete"
    /\ mode' = "list"
    /\ UNCHANGED <<tableVars, sizeVars, formVars, confirmIndex, message, prefVars,
                   quitting, optVars, cmdVars, now, panicked>>

\* ------------------------------------------------- keys in Options mode
OptKey == Running /\ mode = "options"

\* "tab" in either control, and "enter" in the interval input
OptFocus ==
    /\ OptKey
    /\ \E key \in {"tab", "enter"} :
        /\ key = "enter" => optFocus = 0
        /\ optFocus' = 1 - optFocus
    /\ UNCHANGED <<tableVars, sizeVars, mode, formVars, confirmIndex, message,
                   prefVars, quitting, optInterval, optSortIndex, cmdVars, now, panicked>>

\* an "esc" which commits the highlighted sort choice
OptCancelCommits ==
    /\ OptKey
    /\ mode' = "list"
    /\ sortBy' = sortChoices[optSortIndex + 1]
    /\ UNCHANGED <<tableVars, sizeVars, formVars, confirmIndex, message, interval,
                   quitting, optVars, cmdVars, now, panicked>>

\* "esc" in either control
OptCancel ==
    /\ OptKey
    /\ mode' = "list"
    /\ UNCHANGED <<tableVars, sizeVars, formVars, confirmIndex, message, prefVars,
                   quitting, optVars, cmdVars, now, panicked>>

\* any other key while the interval input has the focus: it then holds one
\* of texts
OptTypeFrom(texts) ==
    /\ OptKey
    /\ optFocus = 0
    /\ \E v \in texts : optInterval' = v
    /\ UNCHANGED <<tableVars, sizeVars, mode, formVars, confirmIndex, message,
                   prefVars, quitting, optSortIndex, optFocus, cmdVars, now, panicked>>

OptType == OptTypeFrom(IntervalTexts)

\* "up", "k", "K" and "down", "j", "J" in the sort list
OptMove ==
    /\ OptKey
    /\ optFocus = 1
    /\ \E key \in {"up", "down"} :
        optSortIndex' =
            IF key = "up" THEN (IF optSortIndex > 0 THEN optSortIndex - 1 ELSE optSortIndex)
            ELSE (IF optSortIndex < Len(sortChoices) - 1 THEN optSortIndex + 1
                  ELSE optSortIndex)
    /\ UNCHANGED <<tableVars, sizeVars, mode, formVars, confirmIndex, message,
                   prefVars, quitting, optInterval, optFocus, cmdVars, now, panicked>>

\* the remap loop: the record of the first old row with the same address
Remapped(newHosts, oldHosts, oldResults) ==
    [i \in 1..Len(newHosts) |->
        LET hit == {j \in DOMAIN oldHosts :
                        oldHosts[j].Host = newHosts[i].Host /\ j <= Len(oldResults)}
        IN  IF hit = {} THEN ZeroResult
            ELSE oldResults[CHOOSE j \in hit : \A k \in hit : j <= k]]

\* "enter" in the sort list, with at most cap command chains
OptConfirmWithin(cap) ==
    /\ OptKey
    /\ optFocus = 1
    /\ LET dur == ParseDuration(ReplaceComma(TrimSpace(optInterval)) \o <<115>>)
       IN  IF ~dur.ok
           THEN /\ message' = "Invalid interval; please specify seconds between 0.5 and 5"
                /\ UNCHANGED <<tableVars, mode, prefVars, cmdVars, panicked>>
           ELSE IF dur.ms < 500 \/ dur.ms > 5000
           THEN /\ message' = "Interval must be between 0.5 and 5 seconds"
                /\ UNCHANGED <<tableVars, mode, prefVars, cmdVars, panicked>>
           ELSE /\ Chains < cap
                /\ \E env \in Envs(now) :
                    LET by == sortChoices[optSortIndex + 1]
                        s == sortHosts(hosts, results, by, env)
                    IN  IF s.panic
                        THEN /\ panicked' = TRUE
                             /\ UNCHANGED <<tableVars, mode, prefVars, cmdVars, message>>
                        ELSE /\ interval' = dur.ms
                             /\ sortBy' = by
                             /\ hosts' = s.hosts
                             /\ hostsCap' = Len(s.hosts)
                             /\ results' = Remapped(s.hosts, hosts, results)
                             /\ cursor' = 0
                             /\ mode' = "list"
                             /\ rounds' = Arm(DetachAll(rounds), s.hosts)
                             /\ UNCHANGED <<ticks, message, panicked>>
    /\ UNCHANGED <<sizeVars, formVars, confirmIndex, quitting, optVars, now>>

OptConfirm == OptConfirmWithin(MaxChains)

\* ---------------------------------------------------------- specification
Next ==
    \/ StartRound \/ Tick \/ Deliver \/ Resize
    \/ Quit \/ CursorUp \/ CursorDown \/ OpenAdd \/ OpenEdit \/ OpenDelete
    \/ Save \/ Reload \/ ReloadFails \/ OpenOptions
    \/ FormFocus \/ FormCancel \/ FormType \/ FormConfirm
    \/ DeleteYes \/ DeleteNo
    \/ OptFocus \/ OptCancel \/ OptType \/ OptMove \/ OptConfirm

\* every event in any order, a started command included: the complete machine
Spec == Init /\ [][Next]_vars

\* ------------------------------------------------------------- schedules
\* The runtime starts a command's goroutine as soon as Update returns it, so
\* a round has read its addresses before the next message is handled.
Settled == \A r \in BagToSet(rounds) : ~r.live

\* a dialog is opened while its confirmation can still arm a round
Budget == Chains < MaxChains

\* the probe cycle with the cursor, deletion and reload
NextProbe ==
    \/ StartRound
    \/ Settled /\ Tick
    \/ Settled /\ Deliver
    \/ Settled /\ CursorUp
    \/ Settled /\ CursorDown
    \/ Settled /\ OpenDelete
    \/ Settled /\ DeleteYes
    \/ Settled /\ DeleteNo
    \/ Settled /\ Reload
    \/ Settled /\ ReloadFails

SpecProbe == Init /\ [][NextProbe]_vars

\* the probe cycle with the cursor and the add/edit form
NextEdit ==
    \/ StartRound
    \/ Settled /\ Tick
    \/ Settled /\ Deliver
    \/ Settled /\ CursorUp
    \/ Settled /\ CursorDown
    \/ Settled /\ Budget /\ OpenAdd
    \/ Settled /\ Budget /\ OpenEdit
    \/ Settled /\ FormType
    \/ Settled /\ FormFocus
    \/ Settled /\ FormCancel
    \/ Settled /\ FormConfirm

SpecEdit == Init /\ [][NextEdit]_vars

\* the probe cycle with the options dialog
NextOptions ==
    \/ StartRound
    \/ Settled /\ Tick
    \/ Settled /\ Deliver
    \/ Settled /\ Budget /\ OpenOptions
    \/ Settled /\ OptFocus
    \/ Settled /\ OptMove
    \/ Settled /\ OptType
    \/ Settled /\ OptCancel
    \/ Settled /\ OptConfirm

SpecOptions == Init /\ [][NextOptions]_vars

\* the options dialog and the add/edit form with no batch delivered: a sort
\* key is chosen and hosts are entered under it
PrefBudget == Chains < MaxPrefChains

NextPrefs ==
    \/ StartRound
    \/ Settled /\ PrefBudget /\ OpenOptions
    \/ Settled /\ OptFocus
    \/ Settled /\ OptMove
    \/ Settled /\ OptCancel
    \/ Settled /\ OptConfirmWithin(MaxPrefChains)
    \/ Settled /\ CursorUp
    \/ Settled /\ CursorDown
    \/ Settled /\ PrefBudget /\ OpenAdd
    \/ Settled /\ PrefBudget /\ OpenEdit
    \/ Settled /\ FormType
    \/ Settled /\ FormFocus
    \/ Settled /\ FormCancel
    \/ Settled /\ FormConfirmWithin(MaxPrefChains)

SpecPrefs == Init /\ [][NextPrefs]_vars

\* the options dialog alone, with more interval texts
NextInterval ==
    \/ StartRound
    \/ Settled /\ PrefBudget /\ OpenOptions
    \/ Settled /\ OptFocus
    \/ Settled /\ OptMove
    \/ Settled /\ OptTypeFrom(IntervalInputs)
    \/ Settled /\ OptCancel
    \/ Settled /\ OptConfirmWithin(MaxPrefChains)

SpecInterval == Init /\ [][NextInterval]_vars

\* every handler that changes the host set, and the tick, while the batches
\* of the rounds armed are still outstanding
NextArm ==
    \/ StartRound
    \/ Settled /\ Tick
    \/ Settled /\ CursorUp
    \/ Settled /\ CursorDown
    \/ Settled /\ OpenDelete
    \/ Settled /\ DeleteYes
    \/ Settled /\ DeleteNo
    \/ Settled /\ Reload
    \/ Settled /\ Budget /\ OpenAdd
    \/ Settled /\ Budget /\ OpenEdit
    \/ Settled /\ FormType
    \/ Settled /\ FormFocus
    \/ Settled /\ FormCancel
    \/ Settled /\ FormConfirm

SpecArm == Init /\ [][NextArm]_vars

\* the start of the program, whatever loadHostsFromFile returns to main,
\* followed by the handlers that change the host set
SpecStartup == InitStartup /\ [][NextArm]_vars

\* every dialog opened, typed into and cancelled, and the window resized in
\* every mode, while the batches are still outstanding
NextDialogs ==
    \/ StartRound
    \/ Settled /\ Tick
    \/ Settled /\ Resize
    \/ Settled /\ CursorDown
    \/ Settled /\ OpenDelete
    \/ Settled /\ DeleteNo
    \/ Settled /\ Budget /\ OpenAdd
    \/ Settled /\ Budget /\ OpenEdit
    \/ Settled /\ FormType
    \/ Settled /\ FormFocus
    \/ Settled /\ FormCancel
    \/ Settled /\ Budget /\ OpenOptions
    \/ Settled /\ OptFocus
    \/ Settled /\ OptMove
    \/ Settled /\ OptType
    \/ Settled /\ OptCancel

SpecDialogs == Init /\ [][NextDialogs]_vars

\* the reload and the options dialog while batches come in and before the
\* next timer fires: a batch of a round armed before a reload is delivered
\* and then the table is re-sorted
NextResort ==
    \/ StartRound
    \/ Settled /\ Deliver
    \/ Settled /\ Reload
    \/ Settled /\ PrefBudget /\ OpenOptions
    \/ Settled /\ OptFocus
    \/ Settled /\ OptMove
    \/ Settled /\ OptCancel
    \/ Settled /\ OptConfirmWithin(MaxPrefChains)

SpecResort == Init /\ [][NextResort]_vars

\* every handler that arms, consumes or keeps a tick or a round: the probe
\* cycle with its batches handled within the clock second, the delete, and
\* one of the reload, the add/edit form and the options dialog, cancelled,
\* refused and confirmed
NextChains ==
    \/ StartRound
    \/ Settled /\ Tick
    \/ Settled /\ Deliver /\ now' = now
    \/ Settled /\ OpenDelete
    \/ Settled /\ DeleteYes
    \/ Settled /\ DeleteNo
    \/ Settled /\ inputHost = <<>> /\ optInterval = <<>> /\ Reload
    \/ Settled /\ Budget /\ optInterval = <<>> /\ OpenAdd
    \/ Settled /\ Budget /\ optInterval = <<>> /\ OpenEdit
    \/ Settled /\ hostFocused /\ FormType
    \/ Settled /\ FormFocus
    \/ Settled /\ FormCancel
    \/ Settled /\ FormConfirm
    \/ Settled /\ Budget /\ inputHost = <<>> /\ OpenOptions
    \/ Settled /\ OptFocus
    \/ Settled /\ OptType
    \/ Settled /\ OptCancel
    \/ Settled /\ OptConfirm

SpecChains == Init /\ [][NextChains]_vars

\* the probe cycle with the goroutines of each round as separate steps
NextRound ==
    \/ StartRound
    \/ Launch
    \/ TaskWrites
    \/ TaskDone
    \/ Join
    \/ Settled /\ Tick

SpecRound == Init /\ [][NextRound]_vars

\* the handlers that write the host list, taken at any moment: a key can be
\* handled while the closure of an armed round has not yet run its loop
NextAlias ==
    \/ StartRound
    \/ Running /\ Tick
    \/ Running /\ CursorDown
    \/ Running /\ OpenDelete
    \/ Running /\ DeleteYes
    \/ Running /\ DeleteNo
    \/ Running /\ Reload
    \/ Running /\ Budget /\ OpenAdd
    \/ Running /\ Budget /\ OpenEdit
    \/ Running /\ FormType
    \/ Running /\ FormFocus
    \/ Running /\ FormCancel
    \/ Running /\ FormConfirm

SpecAlias == Init /\ [][NextAlias]_vars

\* the probe cycle while the user opens and leaves every dialog, empties
\* the table and quits
NextLive ==
    \/ StartRound
    \/ Settled /\ Tick
    \/ Settled /\ Deliver
    \/ Settled /\ Quit
    \/ Settled /\ OpenAdd
    \/ Settled /\ OpenEdit
    \/ Settled /\ FormCancel
    \/ Settled /\ OpenDelete
    \/ Settled /\ DeleteYes
    \/ Settled /\ DeleteNo
    \/ Settled /\ OpenOptions
    \/ Settled /\ OptCancel

\* The runtime runs every command it is given: the closure of pingAllCmd
\* is started, tea.Tick sends its tickMsg after m.interval, and every
\* pingHost returns by its context deadline (src/main.go:251-298), so wg.Wait
\* returns and the batch is sent.  A message sent is handled.
SpecLive ==
    /\ Init
    /\ [][NextLive]_vars
    /\ WF_vars(StartRound)
    /\ WF_vars(Settled /\ Tick)
    /\ WF_vars(Settled /\ Deliver)

\* ============================================================ properties
\* the record row i of the table holds before a batch: a row without a
\* record has never been observed
HostRecord(i) == IF i \in DOMAIN results THEN results[i] ELSE ZeroResult

\* the batch a step has delivered, read back from the reachability and the
\* reply the step has stored
Observed == [i \in DOMAIN results' |-> MkResult(results'[i].status, results'[i].reply, 0, 0)]

\* the step is case pingResultsMsg for the batch of round r, at time now'
Delivery(r) == DeliverMsg(r, Observed, now')

\* the record the reconciliation loop reads as prev for slot i of the batch
ReadRecord(i) == IF Len(results) = Len(Observed) THEN results[i] ELSE ZeroResult

\* the rows of a table as a bag of (host, record) pairs; a row beyond the
\* records has none
NoRecord == [none |-> TRUE]

RowBag(hs, rs) ==
    BagOfAll(LAMBDA i : <<hs[i], IF i \in DOMAIN rs THEN rs[i] ELSE NoRecord>>,
             SetToBag(DOMAIN hs))

\* C1: the status-record sequence and the host list have the same length in
\* every state.
C1_SameLength == Len(results) = Len(hosts)

\* C2: a delivered batch whose length differs from the current length of the
\* status records is dropped: hosts, status records, cursor and mode stay as
\* they are and no alert is printed.
C2_StaleBatchDropped ==
    [][\A r \in BagToSet(rounds) :
            (Delivery(r) /\ Len(Observed) # Len(results))
                => (/\ UNCHANGED <<hosts, results, cursor, mode>>
                    /\ Alerts(results, Observed) = {})]_vars

\* C3: a batch of a round armed before an add, edit, delete, reload or
\* re-sort is not applied after it, so the record of a row never receives
\* the outcome of a probe of another address: whenever a batch is applied,
\* every row of the table it reaches was probed at that row's address.
C3_OutcomeOfOwnAddress ==
    [][\A r \in BagToSet(rounds) :
            Delivery(r)
                => \A i \in DOMAIN hosts \cap DOMAIN Observed : r.addrs[i] = hosts[i].Host]_vars

\* C4: a host's last-change time is set exactly when the host is first
\* observed and when its reachability flips; a batch reporting the same
\* reachability leaves it alone, and so does the adding or editing of
\* another host.
C4_LastChangeOnlyOnFlip ==
    [][/\ \A r \in BagToSet(rounds) :
                Delivery(r)
                    => \A i \in DOMAIN hosts \cap DOMAIN Observed :
                        results'[i].lastChange =
                            IF \/ HostRecord(i).lastChange = 0
                               \/ HostRecord(i).status # Observed[i].status
                            THEN now'
                            ELSE HostRecord(i).lastChange
       /\ (FormConfirm /\ mode' = "list")
            => \A i \in DOMAIN hosts, j \in DOMAIN hosts' :
                (/\ hosts'[j] = hosts[i]
                 /\ mode = "edit" => i # editIndex + 1
                 /\ \A k \in DOMAIN hosts : hosts[k] = hosts[i] => k = i
                 /\ \A k \in DOMAIN hosts' : hosts'[k] = hosts[i] => k = j)
                    => results'[j].lastChange = HostRecord(i).lastChange]_vars

\* C5: the first batch for a host never observed before sets its last-change
\* time to the batch time and leaves its flash deadline unset, whether the
\* host is reported reachable or unreachable.
C5_FirstObservationNoFlash ==
    [][\A r \in BagToSet(rounds) :
            Delivery(r)
                => \A i \in DOMAIN hosts \cap DOMAIN Observed :
                    HostRecord(i).lastChange = 0
                        => /\ results'[i].lastChange = now'
                           /\ results'[i].flashUntil = 0]_vars

\* C6: when a batch is reconciled against a previous record, the flash
\* deadline becomes the batch time plus the flash duration exactly when the
\* batch's reachability differs from the previous record's; otherwise the
\* previous deadline is carried over while it is still in the future and is
\* unset once it has passed, and it is never extended.
C6_FlashDeadline ==
    [][\A r \in BagToSet(rounds) :
            Delivery(r)
                => \A i \in DOMAIN Observed :
                    LET prev == ReadRecord(i)
                    IN  /\ results'[i].flashUntil =
                               IF Observed[i].status # prev.status THEN now' + FlashSeconds
                               ELSE IF prev.flashUntil > now' THEN prev.flashUntil
                               ELSE 0
                        /\ Observed[i].status = prev.status
                               => results'[i].flashUntil <= prev.flashUntil]_vars

\* C6 witness: after a batch, one row still carries the deadline of a flip
\* seen by an earlier batch, beside a reachable row observed earlier whose
\* deadline has passed and is unset.
C6_Witness ==
    \E i, j \in DOMAIN results :
        /\ results[i].lastChange < now /\ results[i].flashUntil > now
        /\ results[j].status /\ results[j].lastChange # 0
        /\ results[j].lastChange + FlashSeconds <= now /\ results[j].flashUntil = 0

\* C7: an alert is printed for a host only when its reachability differs
\* between two consecutive observations of that host, so a batch alerts a
\* row only if the row has been observed before with the other reachability.
C7_AlertOnlyOnTransition ==
    [][\A r \in BagToSet(rounds) :
            Delivery(r)
                => \A i \in Alerts(results, Observed) :
                    /\ HostRecord(i).lastChange # 0
                    /\ HostRecord(i).status # Observed[i].status]_vars

\* C8 as stated: a record carries a latency (a reply other than the absent
\* sentinel) only if it is reachable; an unreachable or never-probed record
\* holds the sentinel.
C8_AbsentUnlessReachable ==
    \A i \in DOMAIN results : ~results[i].status => results[i].reply = DeadlineReply

\* C8 amended: a probe outcome carries a latency exactly when the host
\* answered and the time was parsed; a probed record that is unreachable
\* holds the sentinel, a reachable one the parsed latency or the sentinel;
\* a never-probed record is the zero value, whose reply is 0 and not the
\* sentinel.
C8_LatencyOfProbedRecords ==
    /\ \A out \in PingOutputs :
        /\ pingHost(out).ms # DeadlineReply
             <=> (~out.deadline /\ out.ttl /\ out.time # NoTime)
        /\ pingHost(out).ms # DeadlineReply => pingHost(out).up /\ pingHost(out).ms = out.time
    /\ \A i \in DOMAIN results :
        IF results[i].lastChange = 0
        THEN results[i] = ZeroResult
        ELSE /\ ~results[i].status => results[i].reply = DeadlineReply
             /\ results[i].reply # DeadlineReply => results[i].reply \in Latencies

\* C8 witness: a probed reachable row with its latency beside a probed
\* unreachable row holding the sentinel.
C8_Witness ==
    \E i, j \in DOMAIN results :
        /\ results[i].status /\ results[i].reply \in Latencies
        /\ ~results[j].status /\ results[j].lastChange # 0
        /\ results[j].reply = DeadlineReply

\* C9: confirming the options dialog keeps, for every row, the record the
\* row had before (rows with the same address included): the rows are the
\* same (host, record) pairs before and after.
C9_OptionsKeepsRecords ==
    [][(OptConfirm /\ mode' = "list") => RowBag(hosts', results') = RowBag(hosts, results)]_vars

\* C10: under every sort key sortHosts applies one permutation to the host
\* list and to the status records: it returns, and the rows after it are
\* the same (host, record) pairs as before it.
C10_SortKeepsPairs ==
    \A by \in Range(sortChoices), env \in Envs(now) :
        LET s == sortHosts(hosts, results, by, env)
        IN  /\ ~s.panic
            /\ RowBag(s.hosts, s.results) = RowBag(hosts, results)

\* what a sortHosts call with key by can depend on: the resolver for "ip",
\* the clock for "age", nothing for the other keys
KeyEnvs(by) ==
    {e \in Envs(now) :
        /\ by # "ip" => e.dns = [a \in Addrs |-> <<>>]
        /\ by # "age" => ~e.skew /\ e.now = now}

\* a second sortHosts call with key by, in environment e2, after s1
SortedAgain(s1, by, e2) == sortHosts(s1.hosts, s1.results, by, e2)

HasLatency(rs, i) == i <= Len(rs) /\ rs[i].status /\ rs[i].reply >= 0

\* the table after sortHosts with key "reply"
SortedByReply ==
    sortHosts(hosts, results, "reply", CHOOSE e \in KeyEnvs("reply") : TRUE)

\* C12: after sortHosts with key latency, no row without a latency
\* (unreachable, or reachable with an unparsed time) stands before a row
\* with one; rows with a latency are in ascending latency order; rows with
\* equal latencies, and unreachable rows, are in case-insensitive address
\* order.
C12_LatencyRowsFirst ==
    LET s == SortedByReply
    IN  ~s.panic =>
            \A i, j \in 1..Len(s.hosts) :
                i < j =>
                    /\ HasLatency(s.results, j) => HasLatency(s.results, i)
                    /\ HasLatency(s.results, j)
                            => s.results[i].reply <= s.results[j].reply
                    /\ ( \/ /\ HasLatency(s.results, j)
                            /\ s.results[i].reply = s.results[j].reply
                         \/ ~StatusKey(s.results, i) /\ ~StatusKey(s.results, j) )
                            => ~LessName(s.hosts[j], s.hosts[i])

\* the table after sortHosts with key "ip" when the resolver answers dns
SortedByAddress(dns) ==
    sortHosts(hosts, results, "ip", [dns |-> dns, skew |-> FALSE, now |-> now])

\* idx of sortHosts with key "ip": at k, the row of the table before the
\* sort which stands at row k after it
RowsBefore(dns) ==
    SortedIdx(hosts, results, "ip", [dns |-> dns, skew |-> FALSE, now |-> now])

\* C13 as stated: after sortHosts with key address the rows are in
\* case-insensitive order of their resolved address (the raw address when
\* resolution fails), and rows whose keys are equal are in case-insensitive
\* order of their address, whatever their order before the sort.
C13_AddressOrderFolded ==
    \A dns \in Resolvers :
        LET s == SortedByAddress(dns)
            key(h) == ToLower(IF dns[h.Host] # <<>> THEN dns[h.Host] ELSE h.Host)
        IN  ~s.panic =>
                \A i, j \in 1..Len(s.hosts) :
                    i < j =>
                        /\ ~StrLess(key(s.hosts[j]), key(s.hosts[i]))
                        /\ key(s.hosts[i]) = key(s.hosts[j])
                                => ~LessName(s.hosts[j], s.hosts[i])

\* C13 as the code has it: after sortHosts with key address the rows are in
\* byte order, upper case before lower case, of their resolved address (the
\* raw address when resolution fails), and rows whose keys are equal stand
\* in the order they had before the sort.
C13_AddressOrderBytewise ==
    \A dns \in Resolvers :
        LET s == SortedByAddress(dns)
            idx == RowsBefore(dns)
            key(h) == IF dns[h.Host] # <<>> THEN dns[h.Host] ELSE h.Host
        IN  ~s.panic =>
                \A i, j \in 1..Len(s.hosts) :
                    /\ s.hosts[i] = hosts[idx[i]]
                    /\ i < j =>
                        /\ ~StrLess(key(s.hosts[j]), key(s.hosts[i]))
                        /\ key(s.hosts[i]) = key(s.hosts[j]) => idx[i] < idx[j]

\* C13 witness: a table which is not in name order (it was sorted by status)
\* and whose two different names resolve to one address, sorted by address
\* without a panic.
C13_Witness ==
    /\ sortBy = "status"
    /\ Len(hosts) = 2
    /\ LessName(hosts[2], hosts[1])
    /\ \E dns \in Resolvers :
        /\ dns[hosts[1].Host] = dns[hosts[2].Host]
        /\ dns[hosts[1].Host] # <<>>
        /\ ~SortedByAddress(dns).panic
        /\ RowsBefore(dns) = <<1, 2>>

\* the table is as a sortHosts call with key by would leave it: the call
\* returns and moves no row
InOrder(hs, rs, by, e) ==
    LET s == sortHosts(hs, rs, by, e)
    IN  ~s.panic /\ s.hosts = hs /\ s.results = rs

\* the table shown by View is in the order of the sort preference
TableInOrder == \E e \in KeyEnvs(sortBy) : InOrder(hosts, results, sortBy, e)

\* C14: after case pingResultsMsg has reconciled a batch with the host
\* table (one record per host), the table is in the order of the current
\* sort preference; with key status no unreachable row stands before a
\* reachable one.
C14_DeliveredTableInOrder ==
    [][\A r \in BagToSet(rounds) :
            (Delivery(r) /\ Len(results') = Len(hosts'))
                => /\ TableInOrder'
                   /\ sortBy' = "status"
                        => \A i, j \in DOMAIN results' :
                                (i < j /\ results'[j].status) => results'[i].status]_vars

\* the step is a confirmed add or edit: "enter" in the description field
\* with a non-empty host
FormConfirmed == FormConfirmWithin(MaxPrefChains) /\ mode' = "list"

\* C15: after an add or edit is confirmed with a non-empty address, the
\* host table is in the order of the selected sort preference, for each of
\* the five keys: whatever the resolver and the clock answer at that moment,
\* a sortHosts call with the selected key would move no row.
C15_EnteredTableInOrder ==
    [][FormConfirmed
            => \A e \in KeyEnvs(sortBy)' : InOrder(hosts', results', sortBy', e)]_vars

\* the host an add/edit confirm stores: the trimmed texts of the two inputs
EnteredHost == MkHost(TrimSpace(inputHost), TrimSpace(inputDesc))

\* C16: after an add or edit is confirmed with a non-empty address, the
\* cursor is on the row of the host just added or edited, also when another
\* row has the same address.
C16_CursorOnEnteredRow ==
    [][FormConfirmed => hosts'[cursor' + 1] = EnteredHost]_vars

\* row i of a table: the host and the record View pairs with it
RowAt(hs, rs, i) == <<hs[i], IF i \in DOMAIN rs THEN rs[i] ELSE NoRecord>>

C18_CursorAfterDelete ==
    [][DeleteYes
            => /\ cursor = confirmIndex
               /\ IF confirmIndex = Len(hosts) - 1
                  THEN cursor' = IF Len(hosts') = 0 THEN 0 ELSE Len(hosts') - 1
                  ELSE /\ cursor' = cursor
                       /\ hosts'[cursor' + 1] = hosts[confirmIndex + 2]]_vars

\* C18 witness: the last of two rows has been deleted and the cursor has
\* moved up to the row that is left.
C18_Witness ==
    /\ mode = "list"
    /\ message = "Host deleted"
    /\ confirmIndex = 1
    /\ cursor = 0
    /\ Len(hosts) = 1

\* the step returns exactly one pingAllCmd, over the hosts it leaves
ArmsOne ==
    /\ BagCardinality(rounds') = BagCardinality(rounds) + 1
    /\ BagIn(Round(TRUE, AddrsOf(hosts')), rounds')

\* the step returns no command: no round is added and none is live that
\* was not live before
ArmsNone ==
    /\ BagCardinality(rounds') = BagCardinality(rounds)
    /\ \A r \in BagToSet(rounds') : r.live => \E q \in BagToSet(rounds) : q.live

\* "r" with hosts.txt read
Reloaded == Reload /\ ~panicked'

C20_BatchAfterEveryTask ==
    [][\A r \in BagToSet(rounds) :
            (Launched(r) /\ Delivery(r))
                => /\ Len(Observed) = Len(r.addrs)
                   /\ \A i \in DOMAIN r.addrs :
                        /\ r.pc[i] = "done"
                        /\ r.writers[i] = <<i>>
                        /\ r.probed[i] = r.addrs[i]
                        /\ Observed[i] = r.slots[i]]_vars

\* C20 witness: of two rounds over two hosts, one has all its goroutines
\* done and its batch not yet returned while the other has written the
\* second slot only; a batch has been reconciled before.
C20_Witness ==
    /\ \E r \in BagToSet(rounds) :
        /\ Launched(r)
        /\ Len(r.addrs) = 2
        /\ \A i \in DOMAIN r.pc : r.pc[i] = "done"
        /\ r.slots[1] # r.slots[2]
    /\ \E r \in BagToSet(rounds) :
        /\ Launched(r)
        /\ Len(r.addrs) = 2
        /\ r.pc[1] = "run" /\ r.pc[2] # "run"
    /\ \E i \in DOMAIN results : results[i].lastChange # 0

\* the duration case "enter" of the options dialog parses from text
IntervalOf(text) == ParseDuration(ReplaceComma(TrimSpace(text)) \o <<115>>)

\* text parses to a duration of 0.5 s to 5 s
InRange(text) ==
    IntervalOf(text).ok /\ IntervalOf(text).ms >= 500 /\ IntervalOf(text).ms <= 5000

\* C21: the interval is 0.5 s to 5 s in every reachable state; "0.5" and
\* "5.0" are accepted, "0.4" and "6" are not; an options confirm commits
\* the interval and the sort key when the text parses to 0.5 s to 5 s, and
\* otherwise sets a message, stays in the options dialog and leaves
\* interval, sort key, hosts, records and cursor as they are.
C21_IntervalCommittedInRange ==
    /\ [](/\ interval >= 500 /\ interval <= 5000
          /\ InRange(<<48, 46, 53>>) /\ InRange(<<53, 46, 48>>)
          /\ ~InRange(<<48, 46, 52>>) /\ ~InRange(<<54>>))
    /\ [][OptConfirmWithin(MaxPrefChains)
            => IF InRange(optInterval)
               THEN /\ interval' = IntervalOf(optInterval).ms
                    /\ sortBy' = sortChoices[optSortIndex + 1]
                    /\ mode' = "list"
               ELSE /\ message' # ""
                    /\ mode' = "options"
                    /\ UNCHANGED <<interval, sortBy, hosts, results, cursor>>]_vars

\* C21 witness: "0.5" has been committed, and a later confirm of "6" has
\* been refused with the dialog still open.
C21_Witness ==
    /\ interval = 500
    /\ mode = "options"
    /\ optInterval = <<54>>
    /\ message = "Interval must be between 0.5 and 5 seconds"

\* text is empty or holds white space only
Blank(text) == \A k \in DOMAIN text : IsSpace(text[k])

\* C22: "enter" in the description field of the add or edit form while
\* the address is empty or white space sets a message and changes nothing
\* else: hosts, records and cursor are as before, the form stays open, and
\* no round and no tick is armed.
C22_EmptyAddressRefused ==
    [][(FormConfirmWithin(MaxPrefChains) /\ Blank(inputHost))
            => /\ message' = "Host cannot be empty"
               /\ UNCHANGED <<hosts, results, cursor, mode, formVars, rounds, ticks>>]_vars

\* C22 witness: a form holding a single space as address has been confirmed
\* and is still open with the message.
C22_Witness ==
    /\ mode \in {"add", "edit"}
    /\ ~hostFocused
    /\ inputHost = <<32>>
    /\ message = "Host cannot be empty"

\* the messages the handlers set for anything but a failed reload
OtherMessages ==
    {"", "Hosts saved", "Failed to save", "Hosts reloaded", "Host cannot be empty",
     "Host deleted", "Invalid interval; please specify seconds between 0.5 and 5",
     "Interval must be between 0.5 and 5 seconds"}

\* C23: wherever "r" can be pressed, a reload whose loadHostsFromFile fails
\* is handled, leaves hosts, records and cursor as they are and the program
\* running, and leaves a message on screen that reports the failure (none
\* of the messages of the other outcomes, and not the empty one).
C23_ReloadFailureReported ==
    ListKey
        => /\ ENABLED ReloadFails
           /\ ~ENABLED (/\ ReloadFails
                        /\ ~(/\ UNCHANGED <<hosts, results, cursor>>
                             /\ ~quitting' /\ ~panicked'
                             /\ message' \notin OtherMessages))

\* main has started the program in List mode with no host and no record
StartsEmpty(m) == ~m.exit /\ m.mode = "list" /\ m.hosts = <<>> /\ m.results = <<>>

Cancelled == FormCancel \/ DeleteNo \/ OptCancel

\* C25: a cancel in any dialog, whichever control has the focus, and a
\* declined delete return to List mode, leave hosts, records, cursor, poll
\* interval and sort preference as they were and arm no tick and no round.
C25_CancelChangesNothing ==
    [][Cancelled =>
        /\ mode' = "list"
        /\ UNCHANGED <<hosts, results, cursor, interval, sortBy, ticks, rounds>>]_vars

\* C25 witness: back in List mode with a typed address, a moved sort
\* highlight and a delete asked for row 1 all abandoned; no dialog has been
\* confirmed, so the hosts and preferences are those of the start.
C25_Witness ==
    /\ mode = "list"
    /\ Len(hosts) = 2
    /\ inputHost # <<>>
    /\ confirmIndex = 1
    /\ optSortIndex # SortIndexOf(sortBy)
    /\ optFocus = 1

\* C26: in every mode the resize is handled, and a step which changes the
\* stored width or height changes nothing else: hosts, records, cursor,
\* mode, form and options buffers, interval and sort preference are as they
\* were and no tick and no round is armed.
C26_ResizeChangesOnlySize ==
    /\ [](Running => ENABLED Resize)
    /\ [][sizeVars' # sizeVars =>
            UNCHANGED <<tableVars, mode, formVars, optVars, confirmIndex, message,
                        prefVars, cmdVars, quitting, panicked>>]_vars

\* C26 witness: the window has its size while the edit form is open on row
\* 1 with an address typed.
C26_Witness ==
    /\ width = 80 /\ height = 24
    /\ mode = "edit" /\ editIndex = 1 /\ cursor = 1
    /\ inputHost = StrB

\* C27: no re-sort of an options confirm or of a reload indexes the hosts
\* or the records out of range, whatever their lengths are when it runs.
C27_ResortInRange == ~panicked

\* the step is an options confirm that was applied: "enter" on the sort
\* list with an interval text that parses and is in range
OptConfirmed == OptConfirmWithin(MaxPrefChains) /\ mode' = "list"

\* the step is an applied confirm or a successful reload, which leaves its
\* message
Rearmed == FormConfirmed \/ OptConfirmed \/ (message' = "Hosts reloaded" /\ Reloaded)

\* C28: the poll chains, pending ticks plus rounds in flight, are 2 after
\* Init; an applied add, edit or options confirm and a successful reload
\* add exactly one, and every other step (a tick, a batch, a delete, a
\* refused or cancelled dialog) leaves their number as it is, so it never
\* decreases.
C28_ChainsOnlyGrow ==
    /\ Chains = 2
    /\ [][Chains' = Chains + (IF Rearmed THEN 1 ELSE 0)]_vars

\* C28 witness: three chains, two of them rounds in flight at the same
\* time, after batches have been handled.
C28_Witness ==
    /\ Chains = 3
    /\ BagCardinality(rounds) = 2
    /\ Settled
    /\ \E i \in DOMAIN results : results[i].lastChange # 0

\* C29: unless the user quits, a batch is delivered and handled again and
\* again, from every state: in every mode and with an empty table too.
C29_PollingNeverStops == <>[]quitting \/ []<><<Deliver>>_vars

\* C29 witness: with no host left and the add form open, a batch has been
\* handled (the clock was read) and its timer is armed.
C29_Witness ==
    /\ hosts = <<>>
    /\ mode = "add"
    /\ now > 1
    /\ ticks > 0
    /\ ~quitting

\* the index of the last row of a table of n hosts, 0 when it is empty
LastRow(n) == IF n > 0 THEN n - 1 ELSE 0

\* C30: in every state the cursor is on a row, 0 <= cursor <= max(0,
\* len(hosts) - 1); while the edit form or the delete confirmation is open,
\* from the key that opens it to the key that confirms it, the stored index
\* is that of an existing row.
C30_CursorOnARow ==
    /\ 0 <= cursor
    /\ cursor <= LastRow(Len(hosts))
    /\ mode = "edit" => editIndex + 1 \in DOMAIN hosts
    /\ mode = "confirmDelete" => confirmIndex + 1 \in DOMAIN hosts

\* C30 witness: row 1, the last one, was deleted with the cursor on it, and
\* the edit form is then opened on the row the cursor moved to.
C30_Witness ==
    /\ message = "Host deleted"
    /\ confirmIndex = 1
    /\ Len(hosts) = 1
    /\ mode = "edit"
    /\ editIndex = 0
    /\ cursor = 0

\* the step leaves the armed round r what it was: still armed over the same
\* addresses, or started over them
KeepsRound(r) ==
    CopiesIn(r, rounds') + CopiesIn(Detach(r), rounds')
        >= CopiesIn(r, rounds) + CopiesIn(Detach(r), rounds)

\* C31: a round probes the hosts as they were when it was armed: no step
\* changes the addresses, or their indexes, that a round armed earlier and
\* not yet started is going to probe.
C31_ArmedRoundKeepsHosts ==
    [][\A r \in BagToSet(rounds) : r.live => KeepsRound(r)]_vars

====
